---- MODULE Spec2Model ----
(***************************************************************************)
(* Model of the fusion core of the Device Annotation Framework (DAF):      *)
(* the taxonomy checker (taxonomy_checker.py), the classification record   *)
(* (annotation.py), the per-IP ledger entry with its majority-vote merge,  *)
(* hand override, += and export/load (ip.py), and the run of the           *)
(* orchestrator with its annotator threads (daf.py).                       *)
(*                                                                         *)
(* Python values are modelled as TLA+ strings.  A Python str is the string *)
(* itself; the non-string values None, float('nan') and an int are the     *)
(* reserved strings below, which no label of the model uses.               *)
(***************************************************************************)
EXTENDS Integers, Sequences, FiniteSets, TLC

VARIABLES
    ip,                     \* the IP object (ledger entry) the operations act on
    min_annotators_count,   \* config["daf"]["min_annotators_count"] of the run
    calls,                  \* number of perform_annotation calls made on ip
    last,                   \* the last operation on ip and the locals it computed
    args,                   \* arguments of the function call under test
    result,                 \* what that call returned
    other,                  \* a second IP object, the right-hand side of +=
    ip_addresses,           \* the entity list of a run of daf.py
    run,                    \* the run: configuration, main thread, annotator threads
    _taxonomy_checker       \* the class attribute Annotation._taxonomy_checker

vars == <<ip, min_annotators_count, calls, last, args, result, other, ip_addresses, run, _taxonomy_checker>>

\* the variables of a run of daf.py and of the += operand
orchestration == <<other, ip_addresses, run>>

(***************************************************************************)
(* Bounds of the model.                                                    *)
(***************************************************************************)
MaxFusions == 2         \* perform_annotation calls on one entry
MaxMinCount == 3        \* thresholds 1..MaxMinCount in the entry model
MaxTags == 4            \* length of the tag list handed to merge_annotation

(***************************************************************************)
(* Python values.                                                          *)
(***************************************************************************)
None == "<None>"
NaN == "<nan>"
Number == "<int>"
ListOfOne == "<['a']>"          \* a list of one string
ListOfTwo == "<['a', 'b']>"     \* a list of two strings
NonStrings == {None, NaN, Number, ListOfOne, ListOfTwo}

\* an exception that left the call
ValueError == "<ValueError>"

\* bool(x) of a str-or-None value: None and "" are falsy
Truthy(x) == x # None /\ x # ""

\* pandas.isna on a scalar
isna(label) == label \in {None, NaN}

\* pandas.isna on a list is an array with one truth value per item, and
\* bool() of an array of two or more items raises ValueError
isna_ambiguous(label) == label = ListOfTwo

\* isinstance(label, str)
isstr(label) == label \notin NonStrings

\* str.lower() on the strings of the model that carry upper-case letters
UpperCased == [Linux |-> "linux", WINDOWS |-> "windows", Server |-> "server",
               Desktop |-> "desktop", IoT |-> "iot", Generic |-> "generic"]

lower(s) == IF s \in DOMAIN UpperCased THEN UpperCased[s] ELSE s

(***************************************************************************)
(* taxonomy_checker.py: the two taxonomies (loaded from JSON: every key is *)
(* a string, every value a list of strings) and the checks on them.        *)
(***************************************************************************)
os_tax == [linux |-> {"server", "desktop"}, windows |-> {"server"}]

dev_tax == [server |-> {"mail", "generic"}, iot |-> {"generic"}, net |-> {}]

\* the object Taxonomy_checker(os_tax_file, dev_tax_file) makes of the two
\* taxonomy files above
Taxonomy_checker == "Taxonomy_checker"

check_os_nofamily(os_family, os_type, os_version) ==
    (os_family = None /\ os_type = None)
    \/ (os_family \in DOMAIN os_tax
        /\ (os_type = None \/ os_type \in os_tax[os_family]))

check_os(os_family, os_type, os_version) ==
    os_family \in DOMAIN os_tax
    /\ (os_type = None \/ os_type \in os_tax[os_family])

check_device(group, _class) ==
    group \in DOMAIN dev_tax
    /\ (_class = None \/ _class \in dev_tax[group])

check_annotation(annotation) ==
    check_os(annotation.os_family, annotation.os_type, annotation.os_version)
    /\ check_device(annotation.group, annotation._class)

(***************************************************************************)
(* annotation.py: the classification record.                               *)
(***************************************************************************)
AttrNames == <<"group", "_class", "os_family", "os_type", "os_version">>

\* the attribute values Annotation.__init__ assigns before set_annotation
NoAnnotation ==
    [group |-> None, _class |-> None, os_family |-> None,
     os_type |-> None, os_version |-> None]

_validate_label(label) ==
    IF isna_ambiguous(label) THEN ValueError
    ELSE IF isna(label) THEN None
    ELSE IF isstr(label)
         THEN (IF label = "" THEN None ELSE lower(label))
         ELSE None

set_annotation_unchecked(self, group_label, _class_label, os_family_label, os_type_label, os_version_label) ==
    LET os_family == _validate_label(os_family_label)
        os_type == _validate_label(os_type_label)
        os_version == _validate_label(os_version_label)
        group == _validate_label(group_label)
        _class == _validate_label(_class_label)
    IN  IF ValueError \in {os_family, os_type, os_version, group, _class}
        THEN [raised |-> ValueError]
        ELSE [group |-> group, _class |-> _class, os_family |-> os_family,
              os_type |-> os_type, os_version |-> os_version]

set_annotation_coupled(self, group_label, _class_label, os_family_label, os_type_label, os_version_label) ==
    LET os_family == _validate_label(os_family_label)
        os_type == _validate_label(os_type_label)
        os_version == _validate_label(os_version_label)
        group == _validate_label(group_label)
        _class == _validate_label(_class_label)
    IN  IF check_os(os_family, os_type, os_version) /\ check_device(group, _class)
        THEN [group |-> group, _class |-> _class, os_family |-> os_family,
              os_type |-> os_type, os_version |-> os_version]
        ELSE self

\* a failed check leaves the attributes of that half as they were; an
\* exception out of _validate_label leaves the call before any assignment,
\* and the value is then the exception instead of the record
set_annotation(self, group_label, _class_label, os_family_label, os_type_label, os_version_label) ==
    LET os_family == _validate_label(os_family_label)
        os_type == _validate_label(os_type_label)
        os_version == _validate_label(os_version_label)
        group == _validate_label(group_label)
        _class == _validate_label(_class_label)
        os_set == IF check_os(os_family, os_type, os_version)
                  THEN [self EXCEPT !.os_family = os_family,
                                    !.os_type = os_type,
                                    !.os_version = os_version]
                  ELSE self
    IN  IF ValueError \in {os_family, os_type, os_version, group, _class}
        THEN [raised |-> ValueError]
        ELSE IF check_device(group, _class)
        THEN [os_set EXCEPT !.group = group, !._class = _class]
        ELSE os_set

\* Annotation(group, _class, os_family, os_type, os_version)
Annotation(group, _class, os_family, os_type, os_version) ==
    set_annotation(NoAnnotation, group, _class, os_family, os_type, os_version)

is_empty(self) ==
    \A i \in 1..Len(AttrNames) :
        self[AttrNames[i]] = None \/ self[AttrNames[i]] = ""

\* exceptions that leave a call
RuntimeError == "<RuntimeError>"
FileNotFoundError == "<FileNotFoundError>"

\* Annotation._get_taxonomy on the class attribute: RuntimeError while it
\* is None; the mutant hands the attribute back unchecked
_get_taxonomy_unchecked(checker) == checker

_get_taxonomy(checker) == IF checker = None THEN RuntimeError ELSE checker

\* Annotation.initialize_taxonomy_checker: the attribute after the call.
\* Taxonomy_checker(...) raises FileNotFoundError for a missing file before
\* the assignment
initialize_taxonomy_checker(checker, os_file_exists, dev_file_exists) ==
    IF os_file_exists /\ dev_file_exists THEN Taxonomy_checker ELSE checker

\* Annotation.__init__ with the class attribute as it is at the call:
\* set_annotation validates the labels, then asks for the taxonomy
Annotation_init(checker, group, _class, os_family, os_type, os_version) ==
    LET made == Annotation(group, _class, os_family, os_type, os_version)
    IN  IF "raised" \in DOMAIN made THEN made
        ELSE IF _get_taxonomy(checker) = RuntimeError
        THEN [raised |-> RuntimeError]
        ELSE made

(***************************************************************************)
(* ip.py: the ledger entry.  `annotations` is a Python dict: a sequence of *)
(* (name, annotation) items in insertion order with unique names.          *)
(***************************************************************************)
HandAnnotator == "hand_annotator"

\* ipaddress.ip_address(text): the address object of a text the module
\* accepts; two spellings of one IPv6 address give the same object
ip_address ==
    [t \in {"10.0.0.1", "10.0.0.2", "2001:db8::1", "2001:DB8:0:0:0:0:0:1"} |->
        IF t \in {"2001:db8::1", "2001:DB8:0:0:0:0:0:1"}
        THEN [version |-> "IPv6", compressed |-> "2001:db8::1"]
        ELSE [version |-> "IPv4", compressed |-> t]]

\* str(ip_addr) of an address object
str(ip_addr) == ip_addr.compressed

\* IP(ip_addr)
IP(ip_addr) ==
    [ip_addr |-> ip_address[ip_addr],
     final_annotation |-> Annotation(None, None, None, None, None),
     annotations |-> <<>>,
     data |-> <<>>,
     hand_miss |-> <<>>,
     one_miss |-> <<>>,
     multi_device |-> <<>>]

\* IP.__init__ with the class attribute as it is at the call: the address
\* is parsed (ValueError for a text that is no address), then the empty
\* final record is built
IP_init(checker, ip_addr) ==
    IF ip_addr \notin DOMAIN ip_address THEN [raised |-> ValueError]
    ELSE LET final == Annotation_init(checker, None, None, None, None, None)
         IN  IF "raised" \in DOMAIN final THEN final ELSE IP(ip_addr)

\* name in self.annotations
HasKey(items, name) == \E i \in 1..Len(items) : items[i].name = name

\* self.annotations[name]
GetItem(items, name) ==
    items[CHOOSE i \in 1..Len(items) : items[i].name = name].value

\* self.annotations[name] = value: an existing key keeps its position; the
\* mutant keeps the value of an existing key as well
SetItem_keeps_first(items, name, value) ==
    IF HasKey(items, name) THEN items
    ELSE Append(items, [name |-> name, value |-> value])

SetItem(items, name, value) ==
    IF HasKey(items, name)
    THEN [i \in 1..Len(items) |->
            IF items[i].name = name THEN [name |-> name, value |-> value]
            ELSE items[i]]
    ELSE Append(items, [name |-> name, value |-> value])

add_annotation(self, annotator_name, annotation) ==
    [self EXCEPT !.annotations = SetItem(@, annotator_name, annotation)]

\* [tag for tag in tags if tag]
FilterTags(tags) == SelectSeq(tags, Truthy)

\* Counter(tags): the distinct tags in order of first occurrence, each with
\* the number of its occurrences
CountOf(tags, x) == Cardinality({i \in 1..Len(tags) : tags[i] = x})

Counter(tags) ==
    LET firsts == {i \in 1..Len(tags) : \A j \in 1..(i - 1) : tags[j] # tags[i]}
        Nth(k) == CHOOSE i \in firsts :
                    Cardinality({j \in firsts : j < i}) = k - 1
    IN  [k \in 1..Cardinality(firsts) |->
            <<tags[Nth(k)], CountOf(tags, tags[Nth(k)])>>]

most_common_unsorted(items) == items

\* Counter.most_common(): sorted by count, largest first; the sort is stable,
\* so equal counts stay in order of first occurrence
most_common(items) ==
    LET Rank(k) == 1 + Cardinality({j \in 1..Len(items) :
                        \/ items[j][2] > items[k][2]
                        \/ (items[j][2] = items[k][2] /\ j < k)})
    IN  [r \in 1..Len(items) |->
            items[CHOOSE k \in 1..Len(items) : Rank(k) = r]]

\* the result is the pair (returned value, entry after the call)
merge_annotation_always_nat(self, tags_in, min_count, nat_check) ==
    LET tags == FilterTags(tags_in)
        count == most_common(Counter(tags))
    IN  IF Len(count) = 0 THEN [ret |-> "", self |-> self]
        ELSE IF Len(count) = 1 /\ count[1][2] >= min_count
        THEN [ret |-> count[1][1], self |-> self]
        ELSE IF Len(count) = 2 /\ count[1][2] >= min_count
                /\ count[Len(count)][2] = 1
        THEN [ret |-> "",
              self |-> [self EXCEPT !.one_miss = Append(@, count)]]
        ELSE IF nat_check
        THEN [ret |-> "",
              self |-> [self EXCEPT !.multi_device =
                          Append(@, <<"IP:merge_annotation_fail", tags>>)]]
        ELSE [ret |-> "", self |-> self]

merge_annotation_strict(self, tags_in, min_count, nat_check) ==
    LET tags == FilterTags(tags_in)
        count == most_common(Counter(tags))
    IN  IF Len(count) = 0 THEN [ret |-> "", self |-> self]
        ELSE IF Len(count) = 1 /\ count[1][2] > min_count
        THEN [ret |-> count[1][1], self |-> self]
        ELSE IF Len(count) = 2 /\ count[1][2] >= min_count
                /\ count[Len(count)][2] = 1
        THEN [ret |-> "",
              self |-> [self EXCEPT !.one_miss = Append(@, count)]]
        ELSE IF nat_check /\ Len(count) > 1
        THEN [ret |-> "",
              self |-> [self EXCEPT !.multi_device =
                          Append(@, <<"IP:merge_annotation_fail", tags>>)]]
        ELSE [ret |-> "", self |-> self]

merge_annotation_first_seen(self, tags_in, min_count, nat_check) ==
    LET tags == FilterTags(tags_in)
        count == most_common(Counter(tags))
    IN  IF Len(count) = 0 THEN [ret |-> "", self |-> self]
        ELSE IF Len(count) = 1 /\ count[1][2] >= min_count
        THEN [ret |-> count[1][1], self |-> self]
        ELSE IF Len(count) = 2 /\ count[1][2] >= min_count
                /\ count[Len(count)][2] = 1
        THEN [ret |-> tags[1],
              self |-> [self EXCEPT !.one_miss = Append(@, count)]]
        ELSE IF nat_check /\ Len(count) > 1
        THEN [ret |-> "",
              self |-> [self EXCEPT !.multi_device =
                          Append(@, <<"IP:merge_annotation_fail", tags>>)]]
        ELSE [ret |-> "", self |-> self]

merge_annotation_below_threshold(self, tags_in, min_count, nat_check) ==
    LET tags == FilterTags(tags_in)
        count == most_common(Counter(tags))
    IN  IF Len(count) = 0 THEN [ret |-> "", self |-> self]
        ELSE IF Len(count) = 1
        THEN [ret |-> count[1][1], self |-> self]
        ELSE IF Len(count) = 2 /\ count[1][2] >= min_count
                /\ count[Len(count)][2] = 1
        THEN [ret |-> "",
              self |-> [self EXCEPT !.one_miss = Append(@, count)]]
        ELSE IF nat_check /\ Len(count) > 1
        THEN [ret |-> "",
              self |-> [self EXCEPT !.multi_device =
                          Append(@, <<"IP:merge_annotation_fail", tags>>)]]
        ELSE [ret |-> "", self |-> self]

merge_annotation_keeps_majority(self, tags_in, min_count, nat_check) ==
    LET tags == FilterTags(tags_in)
        count == most_common(Counter(tags))
    IN  IF Len(count) = 0 THEN [ret |-> "", self |-> self]
        ELSE IF Len(count) = 1 /\ count[1][2] >= min_count
        THEN [ret |-> count[1][1], self |-> self]
        ELSE IF Len(count) = 2 /\ count[1][2] >= min_count
                /\ count[Len(count)][2] = 1
        THEN [ret |-> count[1][1],
              self |-> [self EXCEPT !.one_miss = Append(@, count)]]
        ELSE IF nat_check /\ Len(count) > 1
        THEN [ret |-> "",
              self |-> [self EXCEPT !.multi_device =
                          Append(@, <<"IP:merge_annotation_fail", tags>>)]]
        ELSE [ret |-> "", self |-> self]

merge_annotation_any_outlier(self, tags_in, min_count, nat_check) ==
    LET tags == FilterTags(tags_in)
        count == most_common(Counter(tags))
    IN  IF Len(count) = 0 THEN [ret |-> "", self |-> self]
        ELSE IF Len(count) = 1 /\ count[1][2] >= min_count
        THEN [ret |-> count[1][1], self |-> self]
        ELSE IF Len(count) >= 2 /\ count[1][2] >= min_count
                /\ count[Len(count)][2] = 1
        THEN [ret |-> "",
              self |-> [self EXCEPT !.one_miss = Append(@, count)]]
        ELSE IF nat_check /\ Len(count) > 1
        THEN [ret |-> "",
              self |-> [self EXCEPT !.multi_device =
                          Append(@, <<"IP:merge_annotation_fail", tags>>)]]
        ELSE [ret |-> "", self |-> self]

merge_annotation_ignores_flag(self, tags_in, min_count, nat_check) ==
    LET tags == FilterTags(tags_in)
        count == most_common(Counter(tags))
    IN  IF Len(count) = 0 THEN [ret |-> "", self |-> self]
        ELSE IF Len(count) = 1 /\ count[1][2] >= min_count
        THEN [ret |-> count[1][1], self |-> self]
        ELSE IF Len(count) = 2 /\ count[1][2] >= min_count
                /\ count[Len(count)][2] = 1
        THEN [ret |-> "",
              self |-> [self EXCEPT !.one_miss = Append(@, count)]]
        ELSE IF Len(count) > 1
        THEN [ret |-> "",
              self |-> [self EXCEPT !.multi_device =
                          Append(@, <<"IP:merge_annotation_fail", tags>>)]]
        ELSE [ret |-> "", self |-> self]

merge_annotation(self, tags_in, min_count, nat_check) ==
    LET tags == FilterTags(tags_in)
        count == most_common(Counter(tags))
    IN  IF Len(count) = 0 THEN [ret |-> "", self |-> self]
        ELSE IF Len(count) = 1 /\ count[1][2] >= min_count
        THEN [ret |-> count[1][1], self |-> self]
        ELSE IF Len(count) = 2 /\ count[1][2] >= min_count
                /\ count[Len(count)][2] = 1
        THEN [ret |-> "",
              self |-> [self EXCEPT !.one_miss = Append(@, count)]]
        ELSE IF nat_check /\ Len(count) > 1
        THEN [ret |-> "",
              self |-> [self EXCEPT !.multi_device =
                          Append(@, <<"IP:merge_annotation_fail", tags>>)]]
        ELSE [ret |-> "", self |-> self]

\* [getattr(x, attr) for x in self.annotations.values()]
FieldValues(self, attr) ==
    [i \in 1..Len(self.annotations) |-> self.annotations[i].value[attr]]

\* the hand override loop (lines 205-211).  Each iteration reads and writes
\* its own attribute only, so the loop is the five iterations side by side:
\* Overrides(e) is the test of line 209 on (attr_name, hand_value, final_value)
Overrides_any_present(e) == Truthy(e[2])

Overrides(e) == Truthy(e[2]) /\ e[2] # e[3]

HandOverride_rewrites(self) ==
    LET hand == GetItem(self.annotations, HandAnnotator)
        final == self.final_annotation
        looked == [i \in 1..Len(AttrNames) |->
                     <<AttrNames[i], hand[AttrNames[i]], final[AttrNames[i]]>>]
    IN  [self EXCEPT
            !.hand_miss = SelectSeq(looked, Overrides),
            !.final_annotation =
                [a \in DOMAIN final |->
                    IF Overrides(<<a, hand[a], final[a]>>) THEN hand[a]
                    ELSE final[a]]]

HandOverride(self) ==
    LET hand == GetItem(self.annotations, HandAnnotator)
        final == self.final_annotation
        looked == [i \in 1..Len(AttrNames) |->
                     <<AttrNames[i], hand[AttrNames[i]], final[AttrNames[i]]>>]
    IN  [self EXCEPT
            !.hand_miss = @ \o SelectSeq(looked, Overrides),
            !.final_annotation =
                [a \in DOMAIN final |->
                    IF Overrides(<<a, hand[a], final[a]>>) THEN hand[a]
                    ELSE final[a]]]

\* what one merge_annotation call of perform_annotation did: the tags it was
\* given, the value it returned and the audit entries it appended
MergeStep(before, m, attr, tags, nat_check) ==
    [field |-> attr, tags |-> tags, nat_check |-> nat_check, ret |-> m.ret,
     one_miss |-> SubSeq(m.self.one_miss, Len(before.one_miss) + 1,
                         Len(m.self.one_miss)),
     multi_device |-> SubSeq(m.self.multi_device, Len(before.multi_device) + 1,
                             Len(m.self.multi_device))]

\* the result carries the entry after the call and, for the properties, the
\* locals of the call: the five merges and the final record as line 201 set it
perform_annotation(self, min_count) ==
    LET m1 == merge_annotation(self, FieldValues(self, "group"), min_count, TRUE)
        m2 == merge_annotation(m1.self, FieldValues(self, "_class"), min_count, FALSE)
        m3 == merge_annotation(m2.self, FieldValues(self, "os_family"), min_count, TRUE)
        m4 == merge_annotation(m3.self, FieldValues(self, "os_type"), min_count, TRUE)
        m5 == merge_annotation(m4.self, FieldValues(self, "os_version"), min_count, FALSE)
        fused == [m5.self EXCEPT !.final_annotation =
                    set_annotation(@, m1.ret, m2.ret, m3.ret, m4.ret, m5.ret)]
    IN  [self |-> IF HasKey(self.annotations, HandAnnotator)
                  THEN HandOverride(fused)
                  ELSE fused,
         fused |-> fused.final_annotation,
         merges |-> <<MergeStep(self, m1, "group", FieldValues(self, "group"), TRUE),
                      MergeStep(m1.self, m2, "_class", FieldValues(self, "_class"), FALSE),
                      MergeStep(m2.self, m3, "os_family", FieldValues(self, "os_family"), TRUE),
                      MergeStep(m3.self, m4, "os_type", FieldValues(self, "os_type"), TRUE),
                      MergeStep(m4.self, m5, "os_version", FieldValues(self, "os_version"), FALSE)>>]

\* self.data[annotator_name] = data
add_data(self, annotator_name, data) ==
    [self EXCEPT !.data = SetItem(@, annotator_name, data)]

\* dict.update(other): the keys of other in their order, each one set
RECURSIVE update(_, _)
update(items, others) ==
    IF others = <<>> THEN items
    ELSE update(SetItem(items, Head(others).name, Head(others).value),
                Tail(others))

\* ip.multi_device.append(entry), as the annotators and the NAT detector do
flag_multi_device(self, entry) ==
    [self EXCEPT !.multi_device = Append(@, entry)]

\* self += other with other winning on a collision; its mutants take the
\* final record of other along, or let self win
__iadd___takes_final(self, other_ip) ==
    [self EXCEPT !.annotations = update(@, other_ip.annotations),
                 !.data = update(@, other_ip.data),
                 !.final_annotation = other_ip.final_annotation,
                 !.hand_miss = @ \o other_ip.hand_miss,
                 !.one_miss = @ \o other_ip.one_miss,
                 !.multi_device = @ \o other_ip.multi_device]

__iadd___keeps_own(self, other_ip) ==
    [self EXCEPT !.annotations = update(other_ip.annotations, @),
                 !.data = update(other_ip.data, @),
                 !.hand_miss = @ \o other_ip.hand_miss,
                 !.one_miss = @ \o other_ip.one_miss,
                 !.multi_device = @ \o other_ip.multi_device]

__iadd__(self, other_ip) ==
    [self EXCEPT !.annotations = update(@, other_ip.annotations),
                 !.data = update(@, other_ip.data),
                 !.hand_miss = @ \o other_ip.hand_miss,
                 !.one_miss = @ \o other_ip.one_miss,
                 !.multi_device = @ \o other_ip.multi_device]

\* Annotation.export: the dictionary, with the key "class" for _class
Annotation_export(self) ==
    [group |-> self.group, class |-> self._class, os_family |-> self.os_family,
     os_type |-> self.os_type, os_version |-> self.os_version]

\* data.get(key), None for a missing key
get(data, key) == IF key \in DOMAIN data THEN data[key] ELSE None

\* Annotation.load: the constructor on the five values of the dictionary
Annotation_load(data) ==
    Annotation(get(data, "group"), get(data, "class"), get(data, "os_family"),
               get(data, "os_type"), get(data, "os_version"))

\* IP.export
IP_export(self) ==
    [ip_addr |-> str(self.ip_addr),
     final_annotation |-> Annotation_export(self.final_annotation),
     annotations |-> [i \in 1..Len(self.annotations) |->
                        [name |-> self.annotations[i].name,
                         value |-> Annotation_export(self.annotations[i].value)]],
     data |-> self.data,
     hand_miss |-> self.hand_miss,
     one_miss |-> self.one_miss,
     multi_device |-> self.multi_device]

\* data.get(key, default) of IP.load; {} and [] are both the empty sequence
get_default(data, key) == IF key \in DOMAIN data THEN data[key] ELSE <<>>

\* IP.load
IP_load(data) ==
    [IP(data["ip_addr"]) EXCEPT
        !.final_annotation = Annotation_load(data["final_annotation"]),
        !.annotations =
            LET annos == get_default(data, "annotations")
            IN  [i \in 1..Len(annos) |->
                    [name |-> annos[i].name,
                     value |-> Annotation_load(annos[i].value)]],
        !.data = get_default(data, "data"),
        !.hand_miss = get_default(data, "hand_miss"),
        !.one_miss = get_default(data, "one_miss"),
        !.multi_device = get_default(data, "multi_device")]

(***************************************************************************)
(* The entry model: annotators add their candidates to one entry in any    *)
(* order (daf.py runs them as threads or one after the other), and the     *)
(* orchestrator fuses the entry; a reannotation run fuses a loaded entry   *)
(* again.                                                                  *)
(***************************************************************************)
AnnotatorNames == {"mac_annotator", "sni_annotator", "hostname_annotator", HandAnnotator}

\* the records the annotators of the model hand to add_annotation
AnnotatorOutputs ==
    {Annotation("server", "mail", "linux", "server", "22"),
     Annotation("server", "generic", "linux", "desktop", "24"),
     Annotation("iot", "generic", "windows", "server", "22"),
     Annotation("net", None, None, None, None),
     Annotation("bogus", "mail", "Linux", "server", "22")}

Init ==
    /\ ip = IP("10.0.0.1")
    /\ min_annotators_count \in 1..MaxMinCount
    /\ calls = 0
    /\ last = [op |-> "__init__"]
    /\ args = <<>>
    /\ result = None
    /\ other = None
    /\ ip_addresses = <<>>
    /\ _taxonomy_checker = Taxonomy_checker
    /\ run = None

\* the annotators run, and are joined, before the fusion loop (daf.py 189-222)
AddAnnotation ==
    /\ calls = 0
    /\ \E annotator_name \in AnnotatorNames, annotation \in AnnotatorOutputs :
           /\ ip' = add_annotation(ip, annotator_name, annotation)
           /\ last' = [op |-> "add_annotation"]
           /\ UNCHANGED <<_taxonomy_checker, min_annotators_count, calls, args, result, orchestration>>

PerformAnnotation ==
    /\ calls < MaxFusions
    /\ LET r == perform_annotation(ip, min_annotators_count)
       IN  /\ ip' = r.self
           /\ last' = [op |-> "perform_annotation", before |-> ip,
                       fused |-> r.fused, merges |-> r.merges]
    /\ calls' = calls + 1
    /\ UNCHANGED <<_taxonomy_checker, min_annotators_count, args, result, orchestration>>

Next == AddAnnotation \/ PerformAnnotation

Spec == Init /\ [][Next]_vars

(***************************************************************************)
(* The merge model: merge_annotation called on an entry with one tag list, *)
(* threshold and NAT flag, twice in a row so that the second call appends  *)
(* to audit lists that already hold entries.                               *)
(***************************************************************************)
MaxMerges == 2

TagValues == {None, "", "server", "iot", "net"}

TagLists == UNION {[1..n -> TagValues] : n \in 0..MaxTags}

InitMerge ==
    /\ ip = IP("10.0.0.1")
    /\ min_annotators_count \in 0..MaxMinCount
    /\ calls = 0
    /\ last = [op |-> "__init__"]
    /\ args \in [tags : TagLists, nat_check : BOOLEAN]
    /\ result = None
    /\ other = None
    /\ ip_addresses = <<>>
    /\ _taxonomy_checker = Taxonomy_checker
    /\ run = None

MergeAnnotation ==
    /\ calls < MaxMerges
    /\ LET m == merge_annotation(ip, args.tags, min_annotators_count, args.nat_check)
       IN  /\ ip' = m.self
           /\ result' = m.ret
    /\ last' = [op |-> "merge_annotation", before |-> ip]
    /\ calls' = calls + 1
    /\ UNCHANGED <<_taxonomy_checker, min_annotators_count, args, orchestration>>

NextMerge == MergeAnnotation

SpecMerge == InitMerge /\ [][NextMerge]_vars

(***************************************************************************)
(* The record model: the Annotation constructor and the taxonomy checks    *)
(* called on five raw labels.                                              *)
(***************************************************************************)
RawGroups == {None, "", "server", "Server", "iot", "net", "bogus"}
RawClasses == {None, "", Number, "mail", "generic", "Generic", ListOfOne, ListOfTwo}
RawFamilies == {None, NaN, "", "linux", "Linux", "windows", "bsd"}
RawTypes == {None, "", "server", "desktop", "Desktop"}
RawVersions == {None, "", Number, "22", ListOfOne, ListOfTwo}

InitAnnotation ==
    /\ ip = IP("10.0.0.1")
    /\ min_annotators_count = 1
    /\ calls = 0
    /\ last = [op |-> "__init__"]
    /\ args \in [group : RawGroups, _class : RawClasses, os_family : RawFamilies,
                 os_type : RawTypes, os_version : RawVersions]
    /\ result = None
    /\ other = None
    /\ ip_addresses = <<>>
    /\ _taxonomy_checker = Taxonomy_checker
    /\ run = None

\* Annotation(group, _class, os_family, os_type, os_version)
Construct ==
    /\ last.op = "__init__"
    /\ result' = Annotation(args.group, args._class, args.os_family,
                            args.os_type, args.os_version)
    /\ last' = [op |-> IF "raised" \in DOMAIN result' THEN "Annotation raised"
                       ELSE "Annotation"]
    /\ UNCHANGED <<_taxonomy_checker, ip, min_annotators_count, calls, args, orchestration>>

\* tax_checker.check_os(os_family, os_type, os_version)
CheckOs ==
    /\ last.op = "__init__"
    /\ result' = check_os(args.os_family, args.os_type, args.os_version)
    /\ last' = [op |-> "check_os"]
    /\ UNCHANGED <<_taxonomy_checker, ip, min_annotators_count, calls, args, orchestration>>

\* tax_checker.check_device(group, _class)
CheckDevice ==
    /\ last.op = "__init__"
    /\ result' = check_device(args.group, args._class)
    /\ last' = [op |-> "check_device"]
    /\ UNCHANGED <<_taxonomy_checker, ip, min_annotators_count, calls, args, orchestration>>

\* tax_checker.check_annotation(annotation) on a constructed record
CheckAnnotation ==
    /\ last.op = "Annotation"
    /\ result' = check_annotation(result)
    /\ last' = [op |-> "check_annotation", annotation |-> result]
    /\ UNCHANGED <<_taxonomy_checker, ip, min_annotators_count, calls, args, orchestration>>

NextAnnotation == Construct \/ CheckOs \/ CheckDevice \/ CheckAnnotation

SpecAnnotation == InitAnnotation /\ [][NextAnnotation]_vars

(***************************************************************************)
(* The run model: one run of daf.py.  main() takes process_in_memory or    *)
(* process_reannotation; the annotators run as threads or as direct calls  *)
(* of the main thread, each a sequence of writes into the shared entity    *)
(* list, and may raise at any point; the main thread joins, checks the     *)
(* recorded failures, fuses every entity and exports.                      *)
(***************************************************************************)
\* the annotator modules load_modules returns, in configuration order
annotators == <<"mac_annotator", "shodan_annotation", HandAnnotator>>

\* what module.annotate finds for an address: the evidence it stores with
\* add_data and the record it stores with add_annotation, each a sequence
\* of one value, or empty where the module stores nothing
annotate ==
    [module \in {"mac_annotator", "shodan_annotation", HandAnnotator} |->
        [addr \in {"10.0.0.1", "10.0.0.2"} |->
            CASE module = "mac_annotator" ->
                   [data |-> <<"aa:bb:cc">>,
                    annotation |-> IF addr = "10.0.0.1"
                                   THEN <<Annotation("server", "mail", "linux", None, None)>>
                                   ELSE <<Annotation("iot", "generic", "linux", None, None)>>]
              [] module = "shodan_annotation" ->
                   [data |-> <<"ports">>,
                    annotation |-> IF addr = "10.0.0.1"
                                   THEN <<Annotation("iot", "generic", "windows", "server", "22")>>
                                   ELSE <<>>]
              [] OTHER ->
                   [data |-> <<>>,
                    annotation |-> IF addr = "10.0.0.1"
                                   THEN <<>>
                                   ELSE <<Annotation("net", None, "linux", "server", None)>>]]]

\* the writes of module.annotate on one entity, in program order
writes_of(module, k, entity) ==
    LET found == annotate[module][str(entity.ip_addr)]
    IN  [n \in 1..Len(found.data) |->
            [entity |-> k, write |-> "add_data", value |-> found.data[n]]]
        \o
        [n \in 1..Len(found.annotation) |->
            [entity |-> k, write |-> "add_annotation", value |-> found.annotation[n]]]

\* the writes of module.annotate(ip_addresses, ...): the entities in list order
RECURSIVE writes(_, _, _)
writes(module, entities, k) ==
    IF k > Len(entities) THEN <<>>
    ELSE writes_of(module, k, entities[k]) \o writes(module, entities, k + 1)

\* one write applied to the entity list
apply_write(entities, module, w) ==
    [entities EXCEPT ![w.entity] =
        IF w.write = "add_data" THEN add_data(@, module, w.value)
        ELSE add_annotation(@, module, w.value)]

\* select_protected_ips with ip_ranges = "ALL": one new IP object per address
select_protected_ips(ips) == [k \in 1..Len(ips) |-> IP(ips[k])]

\* the addresses of the flows of the dataset file
Datasets == {<<"10.0.0.1">>, <<"10.0.0.1", "10.0.0.2">>, <<"10.0.0.2", "10.0.0.1">>}

\* the except clause of process_in_memory.start_thread: the failure is
\* recorded and the thread ends; the mutant records nothing
start_thread_except_silent(r, m) ==
    [r EXCEPT !.status[m] = "failed"]

start_thread_except(r, m) ==
    [r EXCEPT !.status[m] = "failed",
              !.thread_errors = Append(@, <<annotators[m], "traceback">>)]

\* thread.join() returns once the thread has ended; the mutant does not wait
join_returns_at_once(r, m) == TRUE

join_returns(r, m) == r.status[m] \in {"done", "failed"}

\* if thread_errors: (line 208); the mutant never raises
modules_failed_ignored(r) == FALSE

modules_failed(r) == r.thread_errors # <<>>

\* module.annotate on one entity, all its writes done
annotate_entity(entity, module) ==
    LET found == annotate[module][str(entity.ip_addr)]
        with_data == IF found.data = <<>> THEN entity
                     ELSE add_data(entity, module, found.data[1])
    IN  IF found.annotation = <<>> THEN with_data
        ELSE add_annotation(with_data, module, found.annotation[1])

\* an entity after a run that calls the annotators one after the other in
\* configuration order and then fuses
sequential_run(ip_addr, min_count) ==
    perform_annotation(
        annotate_entity(annotate_entity(annotate_entity(
            IP(ip_addr), annotators[1]), annotators[2]), annotators[3]),
        min_count).self

\* the entries of a reannotation file: what export_ip_data wrote after an
\* earlier run over these addresses
earlier_run(ips, min_count) ==
    [k \in 1..Len(ips) |-> IP_export(sequential_run(ips[k], min_count))]

\* load_ip_data: IP.load on every item of the file
load_ip_data(file) == [k \in 1..Len(file) |-> IP_load(file[k])]

\* ip.ip_addr not in ip_addresses_loaded (IP.__eq__ compares the addresses)
not_in_loaded(entity, loaded) ==
    \A k \in 1..Len(loaded) : loaded[k].ip_addr # entity.ip_addr

InitRun ==
    /\ ip = IP("10.0.0.1")
    /\ min_annotators_count \in 1..MaxMinCount
    /\ calls = 0
    /\ last = [op |-> "__init__"]
    /\ args = <<>>
    /\ result = None
    /\ other = None
    /\ ip_addresses = <<>>
    /\ _taxonomy_checker = Taxonomy_checker
    /\ \E path \in {"in_memory", "reannotation"}, threads \in BOOLEAN,
          has_dataset \in BOOLEAN, dataset \in Datasets, file \in Datasets :
           /\ path = "in_memory" => has_dataset
           /\ run = [path |-> path, threads |-> threads,
                     dataset |-> IF has_dataset THEN dataset ELSE <<>>,
                     has_dataset |-> has_dataset,
                     reannotation |-> IF path = "reannotation" THEN file ELSE <<>>,
                     pc |-> "main", i |-> 1,
                     status |-> [m \in 1..Len(annotators) |-> "idle"],
                     pos |-> [m \in 1..Len(annotators) |-> 1],
                     thread_errors |-> <<>>,
                     fused |-> <<>>,
                     exported |-> FALSE]

\* process_in_memory up to the annotator loop (lines 174-187)
ProcessInMemory ==
    /\ run.pc = "main"
    /\ run.path = "in_memory"
    /\ ip_addresses' = select_protected_ips(run.dataset)
    /\ run' = [run EXCEPT !.pc = "annotators", !.i = 1, !.thread_errors = <<>>,
                          !.fused = [k \in 1..Len(run.dataset) |-> 0]]
    /\ UNCHANGED <<_taxonomy_checker, ip, min_annotators_count, calls, last, args, result, other>>

\* thread.start() of the next module (lines 191-196)
ThreadStart ==
    /\ run.pc = "annotators"
    /\ run.threads
    /\ run.i <= Len(annotators)
    /\ run' = [run EXCEPT !.status[run.i] = "running", !.i = @ + 1]
    /\ UNCHANGED <<_taxonomy_checker, ip, min_annotators_count, calls, last, args, result, other, ip_addresses>>

\* module.annotate(...) called by the main thread itself (lines 197-200)
SequentialCall ==
    /\ run.pc = "annotators"
    /\ ~run.threads
    /\ run.i <= Len(annotators)
    /\ run.status[run.i] = "idle"
    /\ run' = [run EXCEPT !.status[run.i] = "running"]
    /\ UNCHANGED <<_taxonomy_checker, ip, min_annotators_count, calls, last, args, result, other, ip_addresses>>

\* the next write of a running annotator
Annotate(m) ==
    /\ run.status[m] = "running"
    /\ LET todo == writes(annotators[m], ip_addresses, 1)
       IN  /\ run.pos[m] <= Len(todo)
           /\ ip_addresses' = apply_write(ip_addresses, annotators[m], todo[run.pos[m]])
    /\ run' = [run EXCEPT !.pos[m] = @ + 1]
    /\ UNCHANGED <<_taxonomy_checker, ip, min_annotators_count, calls, last, args, result, other>>

\* module.annotate returns: the thread ends, or the main thread goes on to
\* the next module
Return(m) ==
    /\ run.status[m] = "running"
    /\ run.pos[m] > Len(writes(annotators[m], ip_addresses, 1))
    /\ run' = [run EXCEPT !.status[m] = "done",
                          !.i = IF run.threads THEN @ ELSE @ + 1]
    /\ UNCHANGED <<_taxonomy_checker, ip, min_annotators_count, calls, last, args, result, other, ip_addresses>>

\* module.annotate raises: a thread records the failure in start_thread and
\* ends (lines 168-172); a direct call has no handler around it (line 199),
\* so the exception leaves process_in_memory and main()
Raise(m) ==
    /\ run.status[m] = "running"
    /\ run' = IF run.threads THEN start_thread_except(run, m)
              ELSE [run EXCEPT !.status[m] = "failed", !.pc = "crashed"]
    /\ UNCHANGED <<_taxonomy_checker, ip, min_annotators_count, calls, last, args, result, other, ip_addresses>>

\* the end of the annotator loop (line 189)
LoopEnd ==
    /\ run.pc = "annotators"
    /\ run.i > Len(annotators)
    /\ run' = [run EXCEPT !.pc = IF run.threads THEN "join" ELSE "check", !.i = 1]
    /\ UNCHANGED <<_taxonomy_checker, ip, min_annotators_count, calls, last, args, result, other, ip_addresses>>

\* thread.join() of the next thread (lines 203-205)
Join ==
    /\ run.pc = "join"
    /\ run.i <= Len(annotators)
    /\ join_returns(run, run.i)
    /\ run' = [run EXCEPT !.i = @ + 1]
    /\ UNCHANGED <<_taxonomy_checker, ip, min_annotators_count, calls, last, args, result, other, ip_addresses>>

\* the check for errors in modules (lines 208-213)
CheckErrors ==
    /\ \/ run.pc = "join" /\ run.i > Len(annotators)
       \/ run.pc = "check"
    /\ run' = [run EXCEPT !.pc = IF modules_failed(run) THEN "failed" ELSE "fuse",
                          !.i = 1]
    /\ UNCHANGED <<_taxonomy_checker, ip, min_annotators_count, calls, last, args, result, other, ip_addresses>>

\* process_reannotation up to the fusion loop (lines 273-336).  A dataset
\* address that is not in the loaded data reaches IP(ip) of line 295 with an
\* IP object as argument: ipaddress.ip_address rejects it with ValueError,
\* which leaves process_reannotation and main().  Otherwise new_ips stays
\* None, no annotator is started and the loaded entries are the entity list.
ProcessReannotation ==
    /\ run.pc = "main"
    /\ run.path = "reannotation"
    /\ LET ip_addresses_loaded ==
               load_ip_data(earlier_run(run.reannotation, min_annotators_count))
           ip_addresses_dataset ==
               IF run.has_dataset THEN select_protected_ips(run.dataset)
               ELSE <<>>
       IN  IF \E k \in 1..Len(ip_addresses_dataset) :
                 not_in_loaded(ip_addresses_dataset[k], ip_addresses_loaded)
           THEN /\ run' = [run EXCEPT !.pc = "crashed"]
                /\ UNCHANGED ip_addresses
           ELSE /\ ip_addresses' = ip_addresses_loaded
                /\ run' = [run EXCEPT !.pc = "fuse", !.i = 1,
                              !.fused = [k \in 1..Len(ip_addresses_loaded) |-> 0]]
    /\ UNCHANGED <<_taxonomy_checker, ip, min_annotators_count, calls, last, args, result, other>>

\* one iteration of the fusion loop (lines 221-222, 338-339)
Fuse ==
    /\ run.pc = "fuse"
    /\ run.i <= Len(ip_addresses)
    /\ ip_addresses' = [ip_addresses EXCEPT ![run.i] =
                           perform_annotation(@, min_annotators_count).self]
    /\ run' = [run EXCEPT !.fused[run.i] = @ + 1, !.i = @ + 1]
    /\ UNCHANGED <<_taxonomy_checker, ip, min_annotators_count, calls, last, args, result, other>>

\* the exports after the fusion loop (lines 226-234, 343-353)
Export ==
    /\ run.pc = "fuse"
    /\ run.i > Len(ip_addresses)
    /\ run' = [run EXCEPT !.pc = "done", !.exported = TRUE]
    /\ UNCHANGED <<_taxonomy_checker, ip, min_annotators_count, calls, last, args, result, other, ip_addresses>>

NextRun ==
    \/ ProcessInMemory
    \/ ThreadStart
    \/ SequentialCall
    \/ \E m \in 1..Len(annotators) : Annotate(m)
    \/ \E m \in 1..Len(annotators) : Return(m)
    \/ \E m \in 1..Len(annotators) : Raise(m)
    \/ LoopEnd
    \/ Join
    \/ CheckErrors
    \/ ProcessReannotation
    \/ Fuse
    \/ Export

SpecRun == InitRun /\ [][NextRun]_vars

(***************************************************************************)
(* The ledger model: the public operations of one IP object in any order,  *)
(* as a caller of the class may use them: add_annotation, add_data,        *)
(* perform_annotation, += with a second object, and export followed by     *)
(* load.                                                                   *)
(***************************************************************************)
MaxOps == 4             \* operations that change the entry

LedgerNames == {"mac_annotator", HandAnnotator}

LedgerOutputs ==
    {Annotation("server", "generic", "linux", "desktop", "24"),
     Annotation("iot", "generic", "linux", "server", "22"),
     Annotation("net", None, "windows", None, None)}

LedgerData == {"aa:bb:cc", "ports"}

\* the right-hand sides of +=: entries that went through a run of their own
Others ==
    {perform_annotation(
        add_data(
            add_annotation(
                add_annotation(IP("10.0.0.2"), "mac_annotator",
                               Annotation("iot", "generic", "linux", "server", "22")),
                "sni_annotator", Annotation("server", "mail", "linux", "server", "22")),
            "mac_annotator", "dd:ee:ff"),
        1).self,
     perform_annotation(
        add_data(
            add_annotation(
                add_annotation(
                    add_annotation(IP("10.0.0.1"), "sni_annotator",
                                   Annotation("server", "mail", "linux", "server", "22")),
                    HandAnnotator, Annotation("net", None, "windows", None, None)),
                "mac_annotator", Annotation("iot", "generic", "linux", "desktop", "24")),
            "sni_annotator", "example.org"),
        1).self}

InitLedger ==
    /\ ip \in {IP("10.0.0.1"), IP("2001:DB8:0:0:0:0:0:1")}
    /\ min_annotators_count \in {1, 2}
    /\ calls = 0
    /\ last = [op |-> "__init__"]
    /\ args = <<>>
    /\ result = None
    /\ other \in Others
    /\ ip_addresses = <<>>
    /\ _taxonomy_checker = Taxonomy_checker
    /\ run = None

LedgerAddAnnotation ==
    /\ calls < MaxOps
    /\ \E annotator_name \in LedgerNames, annotation \in LedgerOutputs :
           /\ ip' = add_annotation(ip, annotator_name, annotation)
           /\ last' = [op |-> "add_annotation", before |-> ip,
                       name |-> annotator_name, value |-> annotation]
    /\ calls' = calls + 1
    /\ result' = None
    /\ UNCHANGED <<_taxonomy_checker, min_annotators_count, args, orchestration>>

LedgerAddData ==
    /\ calls < MaxOps
    /\ \E annotator_name \in LedgerNames, data \in LedgerData :
           /\ ip' = add_data(ip, annotator_name, data)
           /\ last' = [op |-> "add_data", before |-> ip,
                       name |-> annotator_name, value |-> data]
    /\ calls' = calls + 1
    /\ result' = None
    /\ UNCHANGED <<_taxonomy_checker, min_annotators_count, args, orchestration>>

LedgerPerformAnnotation ==
    /\ calls < MaxOps
    /\ ip' = perform_annotation(ip, min_annotators_count).self
    /\ last' = [op |-> "perform_annotation", before |-> ip]
    /\ calls' = calls + 1
    /\ result' = None
    /\ UNCHANGED <<_taxonomy_checker, min_annotators_count, args, orchestration>>

\* ip += other
LedgerIadd ==
    /\ calls < MaxOps
    /\ ip' = __iadd__(ip, other)
    /\ last' = [op |-> "__iadd__", before |-> ip, other |-> other]
    /\ calls' = calls + 1
    /\ result' = None
    /\ UNCHANGED <<_taxonomy_checker, min_annotators_count, args, orchestration>>

\* ip.multi_device.append([...]) by the NAT detector
LedgerFlagMultiDevice ==
    /\ calls < MaxOps
    /\ ip' = flag_multi_device(ip, <<"NAT_detector", "ttl and port counts">>)
    /\ last' = [op |-> "multi_device.append", before |-> ip]
    /\ calls' = calls + 1
    /\ result' = None
    /\ UNCHANGED <<_taxonomy_checker, min_annotators_count, args, orchestration>>

\* IP.load(ip.export())
LedgerExportLoad ==
    /\ last.op # "load"
    /\ result' = IP_load(IP_export(ip))
    /\ last' = [op |-> "load"]
    /\ UNCHANGED <<_taxonomy_checker, ip, min_annotators_count, calls, args, orchestration>>

NextLedger ==
    \/ LedgerAddAnnotation
    \/ LedgerAddData
    \/ LedgerPerformAnnotation
    \/ LedgerIadd
    \/ LedgerFlagMultiDevice
    \/ LedgerExportLoad

SpecLedger == InitLedger /\ [][NextLedger]_vars

(***************************************************************************)
(* The start-up model: records and entries are constructed before and      *)
(* after Annotation.initialize_taxonomy_checker, which main() calls once   *)
(* before it processes anything (daf.py 395).  calls counts the            *)
(* initializations that completed.                                         *)
(***************************************************************************)
InitStartup ==
    /\ ip = IP("10.0.0.1")
    /\ min_annotators_count = 1
    /\ calls = 0
    /\ last = [op |-> "__init__"]
    /\ args = <<>>
    /\ result = None
    /\ other = None
    /\ ip_addresses = <<>>
    /\ run = None
    /\ _taxonomy_checker = None

\* Annotation.initialize_taxonomy_checker(os_tax_file, dev_tax_file)
InitializeTaxonomyChecker ==
    /\ \E os_file_exists \in BOOLEAN, dev_file_exists \in BOOLEAN :
           /\ _taxonomy_checker' = initialize_taxonomy_checker(
                                       _taxonomy_checker, os_file_exists, dev_file_exists)
           /\ calls' = IF os_file_exists /\ dev_file_exists THEN 1 ELSE calls
           /\ last' = [op |-> "initialize_taxonomy_checker", completed |-> calls,
                       raised |-> IF os_file_exists /\ dev_file_exists THEN None
                                  ELSE FileNotFoundError]
    /\ result' = None
    /\ UNCHANGED <<ip, min_annotators_count, args, orchestration>>

\* Annotation(group, _class, os_family, None, os_version)
StartupAnnotation ==
    /\ \E group \in RawGroups, _class \in RawClasses, os_family \in RawFamilies :
           /\ result' = Annotation_init(_taxonomy_checker, group, _class, os_family, None, None)
           /\ last' = [op |-> "Annotation", completed |-> calls,
                       group |-> group, _class |-> _class, os_family |-> os_family]
    /\ UNCHANGED <<_taxonomy_checker, ip, min_annotators_count, calls, args, orchestration>>

\* IP(ip_addr)
StartupIP ==
    /\ \E ip_addr \in DOMAIN ip_address \cup {"not an address"} :
           /\ result' = IP_init(_taxonomy_checker, ip_addr)
           /\ last' = [op |-> "IP", completed |-> calls, ip_addr |-> ip_addr]
    /\ UNCHANGED <<_taxonomy_checker, ip, min_annotators_count, calls, args, orchestration>>

NextStartup == InitializeTaxonomyChecker \/ StartupAnnotation \/ StartupIP

SpecStartup == InitStartup /\ [][NextStartup]_vars

(***************************************************************************)
(* The selection model: select_protected_ips on a flow table with a source *)
(* and a destination address column and an ip_ranges file.                 *)
(***************************************************************************)
MaxFlows == 2           \* rows of the flow table

\* Series.unique(): the distinct values of a column in order of first
\* appearance, compared as the texts they are
FirstAppearances(column) ==
    {i \in 1..Len(column) : \A j \in 1..(i - 1) : column[j] # column[i]}

unique(column) ==
    LET first == FirstAppearances(column)
    IN  [n \in 1..Cardinality(first) |->
            column[CHOOSE i \in first : Cardinality({j \in first : j <= i}) = n]]

\* the entries the loop body appends for one address text (lines 97-107):
\* one if the text is in protected_ip_addrs, and one more if the address
\* lies in a protected network
selected(ip_text, protected_networks, protected_ip_addrs) ==
    (IF \E n \in 1..Len(protected_ip_addrs) : protected_ip_addrs[n] = ip_text
     THEN <<IP(ip_text)>> ELSE <<>>)
    \o
    (IF \E n \in 1..Len(protected_networks) :
            ip_address[ip_text] \in protected_networks[n]
     THEN <<IP(ip_text)>> ELSE <<>>)

RECURSIVE select_in_ranges(_, _, _)
select_in_ranges(ips, protected_networks, protected_ip_addrs) ==
    IF ips = <<>> THEN <<>>
    ELSE selected(Head(ips), protected_networks, protected_ip_addrs)
         \o select_in_ranges(Tail(ips), protected_networks, protected_ip_addrs)

\* select_protected_ips(config, flows) with the flows, the dst_ip_field
\* setting and the ip_ranges of the configuration spelled out
select_protected_ips_of(src, dst, dst_ip_field, ranges) ==
    LET ips == unique(src) \o (IF dst_ip_field THEN unique(dst) ELSE <<>>)
    IN  IF ranges.all THEN select_protected_ips(ips)
        ELSE select_in_ranges(ips, ranges.networks, ranges.addrs)

\* the ip_ranges files of the model: "ALL", a file with an address and the
\* network that holds it, a file with one address only
IpRanges ==
    {[all |-> TRUE, networks |-> <<>>, addrs |-> <<>>],
     [all |-> FALSE,
      networks |-> <<{ip_address["10.0.0.1"], ip_address["10.0.0.2"]}>>,
      addrs |-> <<"10.0.0.1">>],
     [all |-> FALSE, networks |-> <<>>, addrs |-> <<"10.0.0.2", "2001:db8::1">>]}

Columns == UNION {[1..n -> DOMAIN ip_address] : n \in 1..MaxFlows}

InitSelect ==
    /\ ip = IP("10.0.0.1")
    /\ min_annotators_count = 1
    /\ calls = 0
    /\ last = [op |-> "__init__"]
    /\ \E src \in Columns, dst \in Columns :
           /\ Len(src) = Len(dst)
           /\ \E dst_ip_field \in BOOLEAN, ranges \in IpRanges :
                  args = [src |-> src, dst |-> dst, dst_ip_field |-> dst_ip_field,
                          ranges |-> ranges]
    /\ result = None
    /\ other = None
    /\ ip_addresses = <<>>
    /\ _taxonomy_checker = Taxonomy_checker
    /\ run = None

\* ip_addresses = select_protected_ips(config, flows) (daf.py 182)
SelectProtectedIps ==
    /\ last.op = "__init__"
    /\ ip_addresses' = select_protected_ips_of(args.src, args.dst,
                                              args.dst_ip_field, args.ranges)
    /\ last' = [op |-> "select_protected_ips"]
    /\ UNCHANGED <<_taxonomy_checker, ip, min_annotators_count, calls, args, result, other, run>>

NextSelect == SelectProtectedIps

SpecSelect == InitSelect /\ [][NextSelect]_vars

(***************************************************************************)
(* Properties.  The vocabulary below restates the cases of the merge from  *)
(* the tag list alone, without the Counter of the code.                    *)
(***************************************************************************)
\* the distinct values of a tag list that are not absent
Present(tags) == {tags[i] : i \in 1..Len(tags)} \ {None, ""}

\* how many candidates carry value v
Occ(tags, v) == Cardinality({i \in 1..Len(tags) : tags[i] = v})

\* the tag list without its absent values
NonAbsent(tags) == SelectSeq(tags, LAMBDA tag : tag \notin {None, ""})

Absent(v) == v \in {None, ""}

\* the entries a call appended to an audit list
Appended(before, after) == SubSeq(after, Len(before) + 1, Len(after))

IsPrefix(before, after) ==
    Len(before) <= Len(after) /\ SubSeq(after, 1, Len(before)) = before

\* the three rules of the merge that settle a field without escalation
NoEvidence(tags) == Present(tags) = {}

Consensus(tags, min_count) ==
    /\ Cardinality(Present(tags)) = 1
    /\ \A v \in Present(tags) : Occ(tags, v) >= min_count

SingleOutlier(tags, min_count) ==
    \E v \in Present(tags), w \in Present(tags) :
        /\ v # w
        /\ Present(tags) = {v, w}
        /\ Occ(tags, v) >= Occ(tags, w)
        /\ Occ(tags, v) >= min_count
        /\ Occ(tags, w) = 1

MergeDone == last.op = "merge_annotation"

\* C1: a merge whose tags hold exactly one distinct non-absent value, carried
\* by at least min_annotators_count candidates, returns that value and
\* appends nothing to one_miss or multi_device.
C1_Consensus ==
    (MergeDone /\ Consensus(args.tags, min_annotators_count)) =>
        /\ result \in Present(args.tags)
        /\ ip.one_miss = last.before.one_miss
        /\ ip.multi_device = last.before.multi_device

C1_Witness ==
    /\ MergeDone
    /\ min_annotators_count = 2
    /\ args.tags = <<"server", None, "server">>
    /\ result = "server"

\* C2: a merge whose tags hold exactly two distinct non-absent values, the
\* more frequent one with a count of at least min_annotators_count and the
\* other with a count of 1, returns absent, appends exactly one one_miss
\* entry, the (value, count) table in descending order of count, and appends
\* nothing to multi_device, whatever the NAT flag.
C2_OutlierTolerance ==
    (MergeDone /\ SingleOutlier(args.tags, min_annotators_count)) =>
        /\ Absent(result)
        /\ ip.multi_device = last.before.multi_device
        /\ IsPrefix(last.before.one_miss, ip.one_miss)
        /\ Len(ip.one_miss) = Len(last.before.one_miss) + 1
        /\ LET table == ip.one_miss[Len(ip.one_miss)]
           IN  /\ Len(table) = 2
               /\ {table[1], table[2]} =
                    {<<v, Occ(args.tags, v)>> : v \in Present(args.tags)}
               /\ table[1][2] >= table[2][2]

C2_Witness ==
    /\ MergeDone
    /\ calls = 1
    /\ min_annotators_count = 2
    /\ args.tags = <<"iot", "server", "server">>
    /\ ~args.nat_check
    /\ ip.one_miss = <<(<<(<<"server", 2>>), (<<"iot", 1>>)>>)>>

\* the multi_device entry of a failed merge: the tag and the raw value list
Escalation(tags) == <<"IP:merge_annotation_fail", NonAbsent(tags)>>

\* C8 as stated: with the NAT flag set, every merge that none of the three
\* rules settles, the single value below the threshold included, returns
\* absent and appends a multi_device entry holding the raw value list.
C8_EscalatesEveryOtherCase ==
    (/\ MergeDone
     /\ args.nat_check
     /\ ~NoEvidence(args.tags)
     /\ ~Consensus(args.tags, min_annotators_count)
     /\ ~SingleOutlier(args.tags, min_annotators_count)) =>
        /\ Absent(result)
        /\ ip.multi_device =
             Append(last.before.multi_device, Escalation(args.tags))

\* C8 amended: with the NAT flag set, a merge of at least two distinct
\* non-absent values that neither consensus nor the single-outlier rule
\* settles returns absent and appends one multi_device entry holding the raw
\* value list; a merge whose only distinct value stays below the threshold
\* returns absent and appends nothing.
C8_EscalatesDisagreement ==
    (/\ MergeDone
     /\ args.nat_check
     /\ ~NoEvidence(args.tags)
     /\ ~Consensus(args.tags, min_annotators_count)
     /\ ~SingleOutlier(args.tags, min_annotators_count)) =>
        /\ Absent(result)
        /\ ip.one_miss = last.before.one_miss
        /\ IF Cardinality(Present(args.tags)) >= 2
           THEN ip.multi_device =
                    Append(last.before.multi_device, Escalation(args.tags))
           ELSE ip.multi_device = last.before.multi_device

C8_Witness ==
    /\ MergeDone
    /\ calls = 2
    /\ args.nat_check
    /\ min_annotators_count = 3
    /\ args.tags = <<"iot", "", "server", "server">>
    /\ ip.multi_device = <<Escalation(args.tags), Escalation(args.tags)>>

(***************************************************************************)
(* Properties of perform_annotation.  last.before is the entry as the call *)
(* found it, last.merges the five merges in the order of the code and      *)
(* last.fused the final record as set_annotation left it, before the hand  *)
(* override.                                                               *)
(***************************************************************************)
FusionDone == last.op = "perform_annotation"

\* the values the candidates of an entry carry for a field, in candidate order
Candidates(entry, attr) ==
    [i \in 1..Len(entry.annotations) |-> entry.annotations[i].value[attr]]

HasHand(entry) ==
    \E i \in 1..Len(entry.annotations) : entry.annotations[i].name = HandAnnotator

HandRecord(entry) ==
    entry.annotations[CHOOSE i \in 1..Len(entry.annotations) :
                        entry.annotations[i].name = HandAnnotator].value

\* C3: when the candidates carry more than two distinct non-absent values
\* for group, the group merge returns absent and appends exactly one
\* multi_device entry whose payload is the list of the non-absent group
\* values, duplicates kept, in candidate order; it appends no one_miss entry.
C3_GroupEscalation ==
    (FusionDone /\ Cardinality(Present(Candidates(last.before, "group"))) > 2) =>
        /\ last.merges[1].field = "group"
        /\ Absent(last.merges[1].ret)
        /\ last.merges[1].one_miss = <<>>
        /\ last.merges[1].multi_device =
             <<Escalation(Candidates(last.before, "group"))>>
        /\ IsPrefix(Append(last.before.multi_device,
                           Escalation(Candidates(last.before, "group"))),
                    ip.multi_device)

C3_Witness ==
    /\ FusionDone
    /\ min_annotators_count = 2
    /\ Candidates(last.before, "group") = <<"server", "net", "iot", "server">>
    /\ ip.multi_device[1] =
         <<"IP:merge_annotation_fail", <<"server", "net", "iot", "server">>>>

\* C4: after perform_annotation on an entry with a hand_annotator candidate,
\* every field whose hand value is present equals the hand value, every field
\* whose hand value is absent keeps the value the fusion step gave it, and
\* the call appended to hand_miss one entry (field, hand value, fused value)
\* for exactly the fields whose hand value is present and differs from the
\* fused value, an absent fused value included.
C4_HandOverride ==
    (FusionDone /\ HasHand(last.before)) =>
        LET hand == HandRecord(last.before)
            new == Appended(last.before.hand_miss, ip.hand_miss)
            differs == {i \in 1..Len(AttrNames) :
                          /\ ~Absent(hand[AttrNames[i]])
                          /\ hand[AttrNames[i]] # last.fused[AttrNames[i]]}
        IN  /\ \A i \in 1..Len(AttrNames) :
                  ip.final_annotation[AttrNames[i]] =
                      IF Absent(hand[AttrNames[i]])
                      THEN last.fused[AttrNames[i]]
                      ELSE hand[AttrNames[i]]
            /\ IsPrefix(last.before.hand_miss, ip.hand_miss)
            /\ Len(new) = Cardinality(differs)
            /\ \A i \in differs :
                  \E j \in 1..Len(new) :
                      new[j] = <<AttrNames[i], hand[AttrNames[i]],
                                 last.fused[AttrNames[i]]>>

C4_Witness ==
    /\ FusionDone
    /\ calls = 1
    /\ HasHand(last.before)
    /\ HandRecord(last.before).group = "net"
    /\ Absent(HandRecord(last.before).os_family)
    /\ last.fused.group = None
    /\ last.fused.os_family = "linux"
    /\ ip.hand_miss = <<(<<"group", "net", None>>)>>
    /\ ip.final_annotation.group = "net"
    /\ ip.final_annotation.os_family = "linux"

\* the entry without its hand_annotator candidate
WithoutHand(entry) ==
    [entry EXCEPT !.annotations =
        SelectSeq(@, LAMBDA item : item.name # HandAnnotator)]

\* C5: the hand candidate takes no part in the vote: the value each merge
\* returns and the one_miss and multi_device entries it appends are the same
\* as for the entry without the hand candidate; and when the other candidates
\* agree on os_family v with a count of at least min_annotators_count and the
\* hand candidate says h # v, the final os_family is h and the hand_miss
\* entry (os_family, h, v) is recorded.
C5_HandOutsideVote ==
    (FusionDone /\ HasHand(last.before)) =>
        LET others == WithoutHand(last.before)
            alone == perform_annotation(others, min_annotators_count)
            h == HandRecord(last.before).os_family
        IN  /\ \A i \in 1..Len(AttrNames) :
                  /\ last.merges[i].ret = alone.merges[i].ret
                  /\ last.merges[i].one_miss = alone.merges[i].one_miss
                  /\ last.merges[i].multi_device = alone.merges[i].multi_device
            /\ \A v \in Present(Candidates(others, "os_family")) :
                  (/\ Consensus(Candidates(others, "os_family"),
                                min_annotators_count)
                   /\ ~Absent(h)
                   /\ h # v) =>
                        /\ ip.final_annotation.os_family = h
                        /\ \E j \in 1..Len(ip.hand_miss) :
                              ip.hand_miss[j] = <<"os_family", h, v>>

\* C9: in perform_annotation the merges of class and os_version never append
\* to multi_device: the entries the call appended are those of the merges of
\* group, os_family and os_type, in this order.
C9_NatEligibleFields ==
    FusionDone =>
        /\ last.merges[2].field = "_class"
        /\ last.merges[5].field = "os_version"
        /\ last.merges[2].multi_device = <<>>
        /\ last.merges[5].multi_device = <<>>
        /\ ip.multi_device =
             last.before.multi_device \o last.merges[1].multi_device
                \o last.merges[3].multi_device \o last.merges[4].multi_device

C9_Witness ==
    /\ FusionDone
    /\ Cardinality(Present(Candidates(last.before, "_class"))) = 2
    /\ Cardinality(Present(Candidates(last.before, "os_version"))) = 2
    /\ ~SingleOutlier(Candidates(last.before, "_class"), min_annotators_count)
    /\ ~SingleOutlier(Candidates(last.before, "os_version"), min_annotators_count)
    /\ last.merges[1].multi_device # <<>>
    /\ last.merges[3].multi_device # <<>>
    /\ last.merges[4].multi_device # <<>>
    /\ Len(Appended(last.before.multi_device, ip.multi_device)) = 3

\* C10: perform_annotation called a second time in a row, the candidates
\* unchanged, leaves the entry (final record, hand_miss, one_miss and
\* multi_device) as the first call left it.
C10_Idempotent ==
    [][(FusionDone /\ calls' = calls + 1) => ip' = ip]_vars

(***************************************************************************)
(* Properties of the classification record and the taxonomy checks.        *)
(***************************************************************************)
\* the (family, type) and (group, class) pairs the taxonomies list, a pair
\* without the second component included
ListedOs ==
    {<<f, t>> : f \in DOMAIN os_tax, t \in {"server", "desktop", None}}
        \ {<<"windows", "desktop">>}

ListedDevice ==
    {<<"server", "mail">>, <<"server", "generic">>, <<"server", None>>,
     <<"iot", "generic">>, <<"iot", None>>, <<"net", None>>}

\* the five labels of the call as the constructor normalizes them
Normalized == [a \in DOMAIN args |-> _validate_label(args[a])]

Constructed == last.op = "Annotation"

\* C6: the constructor validates the two halves independently: an OS triple
\* the taxonomy does not list leaves os_family, os_type and os_version absent
\* and a listed group/class pair stored; a group/class pair the taxonomy does
\* not list leaves group and class absent and a listed OS triple stored.
C6_IndependentHalves ==
    Constructed =>
        LET n == Normalized
            os_listed == <<n.os_family, n.os_type>> \in ListedOs
            dev_listed == <<n.group, n._class>> \in ListedDevice
        IN  /\ ~os_listed =>
                 /\ result.os_family = None
                 /\ result.os_type = None
                 /\ result.os_version = None
            /\ ~dev_listed =>
                 /\ result.group = None
                 /\ result._class = None
            /\ os_listed =>
                 /\ result.os_family = n.os_family
                 /\ result.os_type = n.os_type
                 /\ result.os_version = n.os_version
            /\ dev_listed =>
                 /\ result.group = n.group
                 /\ result._class = n._class

C6_Witness ==
    /\ Constructed
    /\ args.os_family = "bsd"
    /\ args.os_type = "server"
    /\ args.os_version = "22"
    /\ args.group = "server"
    /\ args._class = "mail"
    /\ result = [group |-> "server", _class |-> "mail", os_family |-> None,
                 os_type |-> None, os_version |-> None]

\* C7 as stated: check_os is true exactly when family and type are both
\* absent or the family is a key of the OS taxonomy and the type is absent or
\* listed under it, whatever the version; check_device obeys the same rule;
\* an all-absent record passes check_annotation.
C7_AbsentFamilyPasses ==
    /\ last.op = "check_os" =>
          result = (\/ (args.os_family = None /\ args.os_type = None)
                    \/ <<args.os_family, args.os_type>> \in ListedOs)
    /\ last.op = "check_device" =>
          result = (\/ (args.group = None /\ args._class = None)
                    \/ <<args.group, args._class>> \in ListedDevice)
    /\ (last.op = "check_annotation" /\ is_empty(last.annotation)) =>
          result = TRUE

\* C7 amended: check_os is true exactly when the family is a key of the OS
\* taxonomy and the type is absent or listed under it, whatever the version:
\* an absent family fails; check_device obeys the same rule; an all-absent
\* record fails check_annotation, which is true exactly when both checks are.
C7_ChecksNeedKnownKey ==
    /\ last.op = "check_os" =>
          result = (<<args.os_family, args.os_type>> \in ListedOs)
    /\ last.op = "check_device" =>
          result = (<<args.group, args._class>> \in ListedDevice)
    /\ last.op = "check_annotation" =>
          /\ result =
               (/\ <<last.annotation.os_family, last.annotation.os_type>>
                      \in ListedOs
                /\ <<last.annotation.group, last.annotation._class>>
                      \in ListedDevice)
          /\ is_empty(last.annotation) => result = FALSE

C7_Witness ==
    /\ last.op = "check_os"
    /\ args.os_family = None
    /\ args.os_type = None
    /\ args.os_version = "22"
    /\ result = FALSE

(***************************************************************************)
(* Properties of a run.                                                    *)
(***************************************************************************)
Modules == 1..Len(annotators)

\* module m raised out of annotate
Raised(m) == run.status[m] = "failed"

\* the main thread of process_in_memory is past the join loop
Joined ==
    /\ run.path = "in_memory"
    /\ run.threads
    /\ \/ run.pc = "join" /\ run.i > Len(annotators)
       \/ run.pc \in {"failed", "fuse", "done"}

\* the entries of thread_errors that name module m
ErrorsOf(m) == {n \in 1..Len(run.thread_errors) : run.thread_errors[n][1] = annotators[m]}

\* every record module m stores is in the candidate map of its entity
CandidatesKept(m) ==
    \A k \in 1..Len(ip_addresses) :
        LET found == annotate[annotators[m]][str(ip_addresses[k].ip_addr)]
        IN  found.annotation # <<>> =>
               /\ HasKey(ip_addresses[k].annotations, annotators[m])
               /\ GetItem(ip_addresses[k].annotations, annotators[m]) = found.annotation[1]

\* C11: in process_in_memory with threads, once all threads are joined every
\* annotator has either finished or raised, whatever the interleaving was;
\* thread_errors holds exactly one entry for each annotator that raised and
\* none for the others, and the candidates of the annotators that finished
\* are in the entities.
C11_FailureIsolation ==
    Joined =>
        /\ \A m \in Modules :
              /\ run.status[m] \in {"done", "failed"}
              /\ Cardinality(ErrorsOf(m)) = IF Raised(m) THEN 1 ELSE 0
              /\ ~Raised(m) => CandidatesKept(m)
        /\ Len(run.thread_errors) = Cardinality({m \in Modules : Raised(m)})

C11_Witness ==
    /\ Joined
    /\ run.pc = "failed"
    /\ Raised(1) /\ ~Raised(2) /\ Raised(3)
    /\ Len(ip_addresses) = 2
    /\ CandidatesKept(2)
    /\ run.thread_errors[1][1] = annotators[3]

\* C12: in sequential mode a raising annotator does not keep the remaining
\* annotators from being invoked: when the run has ended in failure, every
\* registered annotator has had its turn.
C12_SequentialIsolation ==
    (run.path = "in_memory" /\ ~run.threads /\ run.pc \in {"crashed", "failed"}) =>
        \A m \in Modules : run.status[m] # "idle"

\* C13: with threads enabled, in both run paths, once an annotator has
\* raised no entity is fused and nothing is exported, and the run ends in
\* the failed state.
C13_NoOutputAfterFailure ==
    (run.threads /\ \E m \in Modules : Raised(m)) =>
        /\ \A k \in 1..Len(run.fused) : run.fused[k] = 0
        /\ ~run.exported
        /\ run.pc \in {"annotators", "join", "failed"}
        /\ (run.pc = "join" /\ run.i > Len(annotators)) => modules_failed(run)

C13_Witness ==
    /\ run.threads
    /\ run.pc = "failed"
    /\ Raised(2) /\ ~Raised(1) /\ ~Raised(3)
    /\ \A k \in 1..Len(run.fused) : run.fused[k] = 0
    /\ ~run.exported

\* C14: in process_in_memory no perform_annotation call is made while any
\* annotator, thread or direct call, has not terminated, no entry is fused
\* twice, and when the run is done every entry of the entity list has been
\* fused exactly once.
C14_FusionAfterJoin ==
    run.path = "in_memory" =>
        /\ \A k \in 1..Len(run.fused) : run.fused[k] <= 1
        /\ (\E k \in 1..Len(run.fused) : run.fused[k] > 0) =>
               \A m \in Modules : run.status[m] \in {"done", "failed"}
        /\ run.pc = "done" =>
               /\ Len(run.fused) = Len(ip_addresses)
               /\ \A k \in 1..Len(run.fused) : run.fused[k] = 1

C14_Witness ==
    /\ run.path = "in_memory"
    /\ run.threads
    /\ run.pc = "done"
    /\ Len(ip_addresses) = 2
    /\ \A k \in 1..Len(run.fused) : run.fused[k] = 1

\* a mapping read off an ordered dictionary
AsMap(items) == {<<items[n].name, items[n].value>> : n \in 1..Len(items)}

\* the same entity state: address, final record, candidate map and evidence
\* map as mappings, and the three audit sequences with their contents in order
SameEntity(e, f) ==
    /\ e.ip_addr = f.ip_addr
    /\ e.final_annotation = f.final_annotation
    /\ AsMap(e.annotations) = AsMap(f.annotations)
    /\ AsMap(e.data) = AsMap(f.data)
    /\ e.hand_miss = f.hand_miss
    /\ e.one_miss = f.one_miss
    /\ e.multi_device = f.multi_device

\* C15: when a run of process_in_memory with threads is done, every entity
\* is in the state the run with the annotators called one after the other
\* leaves it in, whatever the interleaving of the threads was.
C15_Commutative ==
    (run.path = "in_memory" /\ run.threads /\ run.pc = "done") =>
        \A k \in 1..Len(ip_addresses) :
            SameEntity(ip_addresses[k],
                       sequential_run(run.dataset[k], min_annotators_count))

(***************************************************************************)
(* Properties of the ledger operations.                                    *)
(***************************************************************************)
\* Annotation.load(r.export()) gives r back
RoundTrips(r) == Annotation_load(Annotation_export(r)) = r

\* C16: every record an entry holds, its candidates and its final record,
\* after any sequence of add_annotation, add_data, += and perform_annotation
\* is equal field by field to Annotation.load of its export.
C16_RecordRoundTrip ==
    /\ RoundTrips(ip.final_annotation)
    /\ \A n \in 1..Len(ip.annotations) : RoundTrips(ip.annotations[n].value)

\* C17: IP.load(IP.export(e)) is equivalent to e: the same address, final
\* record, candidate map, evidence map and audit sequences.
C17_EntryRoundTrip ==
    last.op = "load" => SameEntity(result, ip)

\* the names of an ordered dictionary
Keys(items) == {items[n].name : n \in 1..Len(items)}

\* the union of two dictionaries, the second winning on a collision
Union(mine, theirs) ==
    AsMap(theirs) \cup {pair \in AsMap(mine) : pair[1] \notin Keys(theirs)}

\* C18: after a += b the candidate map and the evidence map of a are the
\* union of both with b's value under a key both hold, each audit sequence
\* is a's entries followed by b's, a's final record and address are as
\* before, and b is as before.
C18_MergeEntries ==
    last.op = "__iadd__" =>
        /\ AsMap(ip.annotations) = Union(last.before.annotations, last.other.annotations)
        /\ AsMap(ip.data) = Union(last.before.data, last.other.data)
        /\ Len(ip.annotations) = Cardinality(Keys(ip.annotations))
        /\ Len(ip.data) = Cardinality(Keys(ip.data))
        /\ ip.hand_miss = last.before.hand_miss \o last.other.hand_miss
        /\ ip.one_miss = last.before.one_miss \o last.other.one_miss
        /\ ip.multi_device = last.before.multi_device \o last.other.multi_device
        /\ ip.final_annotation = last.before.final_annotation
        /\ ip.ip_addr = last.before.ip_addr
        /\ other = last.other

C18_Witness ==
    /\ last.op = "__iadd__"
    /\ HasKey(last.before.annotations, "mac_annotator")
    /\ GetItem(last.before.annotations, "mac_annotator")
         # GetItem(last.other.annotations, "mac_annotator")
    /\ GetItem(ip.annotations, "mac_annotator")
         = GetItem(last.other.annotations, "mac_annotator")
    /\ HasKey(last.before.data, "mac_annotator")
    /\ last.before.one_miss # <<>>
    /\ last.other.one_miss # <<>>
    /\ ~is_empty(last.before.final_annotation)

\* C19: after add_annotation(name, r) the candidate map holds r under name
\* and every other key as before, whether or not name was there already;
\* the evidence map, the final record and the audit sequences are as
\* before.  add_data does the same on the evidence map.
C19_AddLeavesRestAlone ==
    /\ last.op = "add_annotation" =>
          /\ AsMap(ip.annotations)
               = Union(last.before.annotations,
                       <<[name |-> last.name, value |-> last.value]>>)
          /\ Len(ip.annotations) = Cardinality(Keys(ip.annotations))
          /\ ip.data = last.before.data
    /\ last.op = "add_data" =>
          /\ AsMap(ip.data)
               = Union(last.before.data,
                       <<[name |-> last.name, value |-> last.value]>>)
          /\ Len(ip.data) = Cardinality(Keys(ip.data))
          /\ ip.annotations = last.before.annotations
    /\ last.op \in {"add_annotation", "add_data"} =>
          /\ ip.final_annotation = last.before.final_annotation
          /\ ip.ip_addr = last.before.ip_addr
          /\ ip.hand_miss = last.before.hand_miss
          /\ ip.one_miss = last.before.one_miss
          /\ ip.multi_device = last.before.multi_device

C19_Witness ==
    /\ last.op = "add_annotation"
    /\ HasKey(last.before.annotations, last.name)
    /\ GetItem(last.before.annotations, last.name) # last.value
    /\ GetItem(ip.annotations, last.name) = last.value
    /\ Len(ip.annotations) = 2
    /\ last.before.data # <<>>
    /\ last.before.one_miss # <<>>

(***************************************************************************)
(* Properties of the constructor on raw inputs of any type.                *)
(***************************************************************************)
\* C20: with the taxonomy initialized the constructor never fails, whatever
\* the five raw inputs are: absent, NaN, empty string, string, number or
\* list.
C20_ConstructorNeverFails ==
    last.op # "Annotation raised"

(***************************************************************************)
(* Properties of the start-up.                                             *)
(***************************************************************************)
\* the call of the last step raised
Failed == "raised" \in DOMAIN result

\* C21: a record or an entry constructed while no call of
\* initialize_taxonomy_checker has completed is not made, the constructor
\* raises; one constructed after a completed call never fails with the
\* RuntimeError of the missing taxonomy.
C21_TaxonomyFirst ==
    last.op \in {"Annotation", "IP"} =>
        /\ last.completed = 0 => Failed
        /\ last.completed > 0 => (Failed => result.raised # RuntimeError)

C21_Witness ==
    /\ last.op = "IP"
    /\ last.completed = 0
    /\ last.ip_addr = "10.0.0.1"
    /\ Failed
    /\ result.raised = RuntimeError

(***************************************************************************)
(* Properties of disagreement, agreement and the shape of the final        *)
(* record.                                                                 *)
(***************************************************************************)
\* the candidates carry at least two distinct non-absent values
Disagree(tags) == Cardinality(Present(tags)) >= 2

\* the merge appended an audit entry
Audited(step) == step.one_miss # <<>> \/ step.multi_device # <<>>

\* C22 as stated: for every field whose candidates carry at least two
\* distinct non-absent values, the value perform_annotation fused for that
\* field is absent and the merge of that field appended a one_miss or a
\* multi_device entry.
C22_DisagreementAudited ==
    FusionDone =>
        \A i \in 1..Len(last.merges) :
            Disagree(last.merges[i].tags) =>
                /\ Absent(last.fused[last.merges[i].field])
                /\ Audited(last.merges[i])

\* C22 amended: for every such field the merge returns absent, and on an
\* entry not fused before the fused value is absent.  The merge appends one
\* one_miss entry when the values are a majority at the threshold and a
\* single outlier; otherwise one multi_device entry for group, os_family and
\* os_type, and nothing for class and os_version.
C22_DisagreementWithheld ==
    FusionDone =>
        \A i \in 1..Len(last.merges) :
            LET step == last.merges[i]
            IN  Disagree(step.tags) =>
                    /\ step.ret = ""
                    /\ calls = 1 => Absent(last.fused[step.field])
                    /\ IF SingleOutlier(step.tags, min_annotators_count)
                       THEN Len(step.one_miss) = 1 /\ step.multi_device = <<>>
                       ELSE /\ step.one_miss = <<>>
                            /\ Len(step.multi_device) = IF step.nat_check THEN 1 ELSE 0
                    /\ step.nat_check = (step.field \in {"group", "os_family", "os_type"})

C22_Witness ==
    /\ FusionDone
    /\ calls = 1
    /\ Disagree(last.merges[2].tags)
    /\ ~Audited(last.merges[2])
    /\ Disagree(last.merges[1].tags)
    /\ Len(last.merges[1].one_miss) = 1
    /\ Disagree(last.merges[4].tags)
    /\ Len(last.merges[4].multi_device) = 1

\* the OS triple and the device pair of a record are each all-absent or in
\* the taxonomy
TaxonomyValid(r) ==
    /\ \/ r.os_family = None /\ r.os_type = None /\ r.os_version = None
       \/ check_os(r.os_family, r.os_type, r.os_version)
    /\ \/ r.group = None /\ r._class = None
       \/ check_device(r.group, r._class)

\* C23: in every state of an entry, after any sequence of add_annotation,
\* add_data, += and perform_annotation, the final record satisfies the
\* taxonomy.
C23_FinalInTaxonomy ==
    TaxonomyValid(ip.final_annotation)

\* a new entry that holds the candidate map of entry e
FreshWith(e) ==
    [IP(str(e.ip_addr)) EXCEPT !.annotations = e.annotations]

\* C24: the final record perform_annotation leaves is the one it computes on
\* a fresh entry with the same candidate map, whatever final record the
\* entry held before the call.
C24_RefusionSupersedes ==
    last.op = "perform_annotation" =>
        ip.final_annotation =
            perform_annotation(FreshWith(last.before),
                               min_annotators_count).self.final_annotation

\* value v of field attr has the agreement of the candidates of entry e:
\* at least min_count candidates carry it and no candidate carries another
\* non-absent value
Agreed(e, attr, v, min_count) ==
    /\ Occ(Candidates(e, attr), v) >= min_count
    /\ Present(Candidates(e, attr)) = {v}

\* C25: after perform_annotation on an entry not fused before, every
\* non-absent field of the final record is the hand annotator's value for
\* that field or a value the candidates agree on at the threshold.
C25_NothingWithoutAgreement ==
    (FusionDone /\ calls = 1) =>
        \A i \in 1..Len(AttrNames) :
            LET attr == AttrNames[i]
                v == ip.final_annotation[attr]
            IN  ~Absent(v) =>
                    \/ HasHand(last.before) /\ HandRecord(last.before)[attr] = v
                    \/ Agreed(last.before, attr, v, min_annotators_count)

C25_Witness ==
    /\ FusionDone
    /\ calls = 1
    /\ min_annotators_count = 2
    /\ ~HasHand(last.before)
    /\ ip.final_annotation.os_family = "linux"
    /\ Agreed(last.before, "os_family", "linux", 2)
    /\ Present(Candidates(last.before, "group")) = {"server"}
    /\ Occ(Candidates(last.before, "group"), "server") = 1
    /\ ip.final_annotation.group = None

\* two reorderings of a candidate map that generate every insertion order:
\* the first two items exchanged, and the first item moved to the end
Swapped(items) ==
    IF Len(items) < 2 THEN items
    ELSE <<items[2], items[1]>> \o SubSeq(items, 3, Len(items))

Rotated(items) ==
    IF Len(items) = 0 THEN items ELSE Tail(items) \o <<Head(items)>>

\* the final record perform_annotation computes with the candidates of
\* entry e held in the order of items
FinalOf(e, items, min_count) ==
    perform_annotation([e EXCEPT !.annotations = items], min_count).self.final_annotation

\* C26: the final record perform_annotation computes on an entry not fused
\* before is the one it computes with the same candidates inserted in
\* another order.  (Checked for the two reorderings above on every candidate
\* map the model reaches; these hold every order of every map.)
C26_FinalOrderFree ==
    (FusionDone /\ calls = 1) =>
        /\ FinalOf(last.before, Swapped(last.before.annotations), min_annotators_count)
             = ip.final_annotation
        /\ FinalOf(last.before, Rotated(last.before.annotations), min_annotators_count)
             = ip.final_annotation

C26_Witness ==
    /\ FusionDone
    /\ calls = 1
    /\ Len(last.before.annotations) = 3
    /\ Swapped(last.before.annotations) # last.before.annotations
    /\ Cardinality(Present(Candidates(last.before, "group"))) = 2
    /\ Occ(Candidates(last.before, "group"), "server") = 1
    /\ Occ(Candidates(last.before, "group"), "iot") = 1
    /\ min_annotators_count = 1
    /\ ~is_empty(ip.final_annotation)
    /\ ip.one_miss # <<>>

(***************************************************************************)
(* Properties of the steps of the ledger operations.                       *)
(***************************************************************************)
\* C27: no operation other than perform_annotation takes the final record
\* of an entry out of the all-absent state the constructor put it in: not
\* add_annotation, add_data, an append to multi_device, += or export/load.
C27_EmptyUntilFused ==
    [][(is_empty(ip.final_annotation) /\ last'.op # "perform_annotation")
          => is_empty(ip'.final_annotation)]_vars

C27_Witness ==
    /\ last.op = "__iadd__"
    /\ is_empty(ip.final_annotation)
    /\ ~is_empty(last.other.final_annotation)
    /\ HasKey(ip.data, "mac_annotator")
    /\ \E n \in 1..Len(ip.multi_device) : ip.multi_device[n][1] = "NAT_detector"
    /\ Len(ip.annotations) >= 3

\* C28: every step leaves what hand_miss, one_miss and multi_device held
\* before it as a prefix of what they hold after it.
C28_AuditAppendOnly ==
    [][/\ IsPrefix(ip.hand_miss, ip'.hand_miss)
       /\ IsPrefix(ip.one_miss, ip'.one_miss)
       /\ IsPrefix(ip.multi_device, ip'.multi_device)]_vars

C28_Witness ==
    /\ last.op = "perform_annotation"
    /\ last.before.hand_miss # <<>>
    /\ last.before.one_miss # <<>>
    /\ last.before.multi_device # <<>>
    /\ Len(ip.one_miss) > Len(last.before.one_miss)
    /\ IsPrefix(last.before.hand_miss, ip.hand_miss)

(***************************************************************************)
(* Properties of the entity selection.                                     *)
(***************************************************************************)
\* C29: the list select_protected_ips returns holds no two entries with
\* the same IP address.
C29_OneEntryPerAddress ==
    last.op = "select_protected_ips" =>
        \A i \in 1..Len(ip_addresses), j \in 1..Len(ip_addresses) :
            i # j => ip_addresses[i].ip_addr # ip_addresses[j].ip_addr

(***************************************************************************)
(* Properties of the final record's field dependencies.                    *)
(***************************************************************************)
\* C30: after perform_annotation on an entry that was not fused before, the
\* final record holds os_type or os_version only together with os_family and
\* _class only together with group; and when the os_family (group) merge
\* returned absent, the record set_annotation leaves holds no os_type and no
\* os_version (no _class), whatever their own merges returned.
C30_NoFieldWithoutParent ==
    (FusionDone /\ calls = 1) =>
        /\ (~Absent(ip.final_annotation.os_type)
            \/ ~Absent(ip.final_annotation.os_version)) =>
                ~Absent(ip.final_annotation.os_family)
        /\ ~Absent(ip.final_annotation._class) =>
                ~Absent(ip.final_annotation.group)
        /\ Absent(last.merges[3].ret) =>
                /\ Absent(last.fused.os_type)
                /\ Absent(last.fused.os_version)
        /\ Absent(last.merges[1].ret) => Absent(last.fused._class)

\* the os_family vote failed while os_type reached consensus on its own, and
\* the final record holds neither
C30_Witness ==
    /\ FusionDone
    /\ calls = 1
    /\ ~HasHand(last.before)
    /\ Absent(last.merges[3].ret)
    /\ Cardinality(Present(Candidates(last.before, "os_family"))) = 2
    /\ last.merges[4].ret = "server"
    /\ Consensus(Candidates(last.before, "os_type"), min_annotators_count)
    /\ ip.final_annotation.os_family = None
    /\ ip.final_annotation.os_type = None

====
